---- MODULE Spec2Model ----
(***************************************************************************)
(* A model of dmarc_parser.py: the reverse-DNS cache (_lookup_ip), the     *)
(* record decoder (DMARCRecord.__init__), the report decoder (_process_xml *)
(* and DMARCReport.__init__), the archive extractors (_process_zipfile,    *)
(* _process_gzfile) and the ingestion driver (parse_report and             *)
(* parse_reports_in_directory).                                            *)
(*                                                                         *)
(* Python strings that the code inspects character by character (file      *)
(* names) are sequences of one-character strings.  Python None is PyNone,  *)
(* True/False stored in a Record are PyTrue/PyFalse.  An XML element that  *)
(* is missing from the document is Absent.  A function that can raise      *)
(* returns a record whose field exc names the exception ("" for none).     *)
(***************************************************************************)
EXTENDS Integers, Sequences, FiniteSets, TLC

VARIABLES
    rdns,        \* _rdns_records: the process-wide cache, IP -> hostname
    \* ---- resolver calls (_lookup_ip called directly)
    lkCalls,     \* number of _lookup_ip calls made so far
    netOps,      \* per IP, number of socket.gethostbyaddr calls
    netOK,       \* per IP, number of gethostbyaddr calls that returned
    lkLast,      \* the last _lookup_ip call: its input, cache before, result
    \* ---- one DMARCRecord construction
    record_xml,  \* the <record> element handed to DMARCRecord
    recOut,      \* the outcome of DMARCRecord(record_xml)
    \* ---- one _process_gzfile decision
    gzName,      \* the file name handed to parse_report
    gzOut,       \* what _process_gzfile did with it
    \* ---- the ingestion driver
    dir,         \* the files os.walk yields, in walk order (never changes)
    store,       \* the persistent store: the reports saved, in order
    run,         \* how many runs of parse_reports_in_directory have started
    pc,          \* position of the driver
    idx,         \* position of the walk in dir
    n,           \* parse_reports_in_directory's n
    n_new,       \* parse_reports_in_directory's n_new
    report,      \* the DMARCReport under construction in _process_xml
    recIdx,      \* the next <record> of the document _process_xml decodes
    raised,      \* the exception that left parse_reports_in_directory ("" none)
    visitLog,    \* per file visited in this run, what the driver did with it
    saveCalls    \* save_new_report calls in this run: the index in dir of each file

lookupVars == <<lkCalls, netOps, netOK, lkLast>>
recordVars == <<record_xml, recOut>>
gzVars     == <<gzName, gzOut>>
driverVars == <<dir, store, run, pc, idx, n, n_new, report, recIdx, raised,
                visitLog, saveCalls>>
vars       == <<rdns, lookupVars, recordVars, gzVars, driverVars>>

----------------------------------------------------------------------------
(* Bounds of the model *)

MaxCalls == 4     \* _lookup_ip calls in one behaviour of SpecLookup
MaxDkim  == 2     \* <dkim> entries in the auth_results of an enumerated record
MaxParts == 3     \* pieces an enumerated .gz file name is built from
MaxFiles == 3     \* files in the walked directory
MaxRuns  == 2     \* runs of parse_reports_in_directory

----------------------------------------------------------------------------
(* Python values *)

PyNone  == "None"
PyTrue  == "True"
PyFalse == "False"
Absent  == "<absent>"        \* an element the XML document does not have
NoExc   == ""

PyBool(b) == IF b THEN PyTrue ELSE PyFalse

(* str.endswith *)
EndsWith(s, suffix) ==
    /\ Len(s) >= Len(suffix)
    /\ SubSeq(s, Len(s) - Len(suffix) + 1, Len(s)) = suffix

StartsWithAt(s, k, old) ==
    /\ k + Len(old) - 1 <= Len(s)
    /\ SubSeq(s, k, k + Len(old) - 1) = old

(* str.replace(old, new): every non-overlapping occurrence of old, found   *)
(* scanning from the left, is replaced; the result is not scanned again.   *)
RECURSIVE ReplaceFrom(_, _, _, _)
ReplaceFrom(s, k, old, new) ==
    IF k > Len(s) THEN <<>>
    ELSE IF StartsWithAt(s, k, old)
         THEN new \o ReplaceFrom(s, k + Len(old), old, new)
         ELSE <<s[k]>> \o ReplaceFrom(s, k + 1, old, new)

Replace(s, old, new) == ReplaceFrom(s, 1, old, new)

(* s.split(sep)[-1] for a one-character sep: what follows the last sep.    *)
RECURSIVE SplitLast(_, _)
SplitLast(s, sep) ==
    IF \E k \in 1..Len(s) : s[k] = sep
    THEN LET k == CHOOSE j \in 1..Len(s) : s[j] = sep
         IN  SplitLast(SubSeq(s, k + 1, Len(s)), sep)
    ELSE s

Slash  == "/"
DotZip == <<".", "z", "i", "p">>
DotGz  == <<".", "g", "z">>
DotXml == <<".", "x", "m", "l">>
DotTxt == <<".", "t", "x", "t">>

(* root + "/" + fname *)
JoinPath(root, fname) == root \o <<Slash>> \o fname

----------------------------------------------------------------------------
(* The resolver: _lookup_ip and the socket call under it *)

(* The texts of source_ip the model uses: an IPv4 literal, and a host name  *)
(* (gethostbyaddr accepts one and resolves it first).                      *)
Ip1      == "192.0.2.1"
NameText == "mail.example.net"
IPs      == {Ip1, NameText}
Literals == {Ip1}
Hosts    == {"mx.example.org"}

(* What socket.gethostbyaddr can do: return a host name, raise             *)
(* socket.herror (the reverse lookup failed: host not found, try again,    *)
(* no recovery), or raise socket.gaierror (its argument is not an address  *)
(* literal and cannot be resolved to an address, for now or at all).       *)
Outcomes == Hosts \cup {"herror", "gaierror"}

OutcomesFor(ip_address) ==
    IF ip_address \in Literals THEN Hosts \cup {"herror"} ELSE Outcomes

(* The caches the process can start with: load_rdns_records returns what   *)
(* an earlier run saved, and only resolved names are ever stored.          *)
Caches == UNION {[D -> Hosts] : D \in SUBSET IPs}

(* A mutation of _lookup_ip: the resolved name is returned but not stored. *)
lookup_ip_forgets(cache, ip_address, outcome) ==
    IF ip_address \notin DOMAIN cache
    THEN IF outcome \in Hosts
         THEN [exc |-> NoExc, ret |-> outcome, cache |-> cache, net |-> TRUE]
         ELSE IF outcome = "herror"
              THEN [exc |-> NoExc, ret |-> PyNone, cache |-> cache, net |-> TRUE]
              ELSE [exc |-> outcome, ret |-> PyNone, cache |-> cache, net |-> TRUE]
    ELSE [exc |-> NoExc, ret |-> cache[ip_address], cache |-> cache, net |-> FALSE]

(* _lookup_ip(ip_address), given what gethostbyaddr does if it is called:  *)
(* the value returned (ret) or the exception raised (exc), the cache       *)
(* afterwards, and whether the network was used.                           *)
_lookup_ip(cache, ip_address, outcome) ==
    IF ip_address \notin DOMAIN cache
    THEN IF outcome \in Hosts
         THEN [exc |-> NoExc, ret |-> outcome,
               cache |-> (ip_address :> outcome) @@ cache, net |-> TRUE]
         ELSE IF outcome = "herror"
              THEN [exc |-> NoExc, ret |-> PyNone, cache |-> cache, net |-> TRUE]
              ELSE [exc |-> outcome, ret |-> PyNone, cache |-> cache, net |-> TRUE]
    ELSE [exc |-> NoExc, ret |-> cache[ip_address], cache |-> cache, net |-> FALSE]

----------------------------------------------------------------------------
(* The record decoder: DMARCRecord.__init__ *)

(* A <record> element.  Every field is the text of the element of that     *)
(* name, or Absent; has_policy_evaluated, has_identifiers and              *)
(* has_auth_results say whether the enclosing element exists; has_reason   *)
(* whether policy_evaluated has a <reason>, whose <type> is reason_type.   *)
(* spf_auth and dkim_auth are the <spf> and <dkim> elements of             *)
(* auth_results in document order.                                         *)
GoodRecordXml(ip) ==
    [source_ip |-> ip,
     has_policy_evaluated |-> TRUE,
     disposition |-> "none", spf |-> "pass", dkim |-> "pass",
     has_reason |-> FALSE, reason_type |-> Absent,
     has_identifiers |-> TRUE,
     header_from |-> "example.com", envelope_from |-> Absent,
     count |-> "5",
     has_auth_results |-> TRUE,
     spf_auth  |-> <<[result |-> "pass", domain |-> "example.com"]>>,
     dkim_auth |-> <<>>]

(* int(text): the decimal texts the model uses; any other text is not a    *)
(* number and int() raises ValueError.                                     *)
IntOf == ("1" :> 1) @@ ("5" :> 5)

(* Mutations of the DKIM filter of line 62. *)
DkimKeepEither(_result, _domain) ==
    _result \notin {"none", "neutral"} \/ _domain /= "not.evaluated"

(* Line 62: the condition under which a <dkim> entry is appended. *)
DkimKeep(_result, _domain) ==
    _result \notin {"none", "neutral"} /\ _domain /= "not.evaluated"

OrNone(text) == IF text = Absent THEN PyNone ELSE text

(* Line 63: the dict appended for a <dkim> entry. *)
DkimDict(e) ==
    [result |-> e.result, domain |-> e.domain,
     selector |-> OrNone(e.selector), human_result |-> OrNone(e.human_result)]

(* Lines 57-63: the loop over the <dkim> entries from entry k on, acc the  *)
(* list built so far.  .result.text and .domain.text of a missing element  *)
(* raise AttributeError.                                                   *)
RECURSIVE DkimLoop(_, _, _)
DkimLoop(entries, k, acc) ==
    IF k > Len(entries) THEN [exc |-> NoExc, list |-> acc]
    ELSE LET e == entries[k] IN
         IF e.result = Absent \/ e.domain = Absent
         THEN [exc |-> "AttributeError", list |-> acc]
         ELSE IF DkimKeep(e.result, e.domain)
              THEN DkimLoop(entries, k + 1, Append(acc, DkimDict(e)))
              ELSE DkimLoop(entries, k + 1, acc)

(* Lines 49-52: the loop over the <spf> entries; nothing is filtered. *)
RECURSIVE SpfLoop(_, _, _)
SpfLoop(entries, k, acc) ==
    IF k > Len(entries) THEN [exc |-> NoExc, list |-> acc]
    ELSE LET e == entries[k] IN
         IF e.result = Absent \/ e.domain = Absent
         THEN [exc |-> "AttributeError", list |-> acc]
         ELSE SpfLoop(entries, k + 1,
                      Append(acc, [domain |-> e.domain, result |-> e.result]))

(* A mutation of lines 28-32 and 33-38. *)
DkimPassUnset(text) ==
    IF text = Absent THEN PyNone ELSE PyBool(text = "pass")

(* Lines 28, 30-32: spf_pass stays None when <spf> is missing. *)
SpfPass(text) ==
    IF text /= Absent THEN PyBool(text = "pass") ELSE PyNone

(* Lines 29, 33-38: dkim_pass is forced to False when <dkim> is missing. *)
DkimPass(text) ==
    IF text /= Absent THEN PyBool(text = "pass") ELSE PyFalse

NoRecord == [ip |-> Absent]

Failed(kind, cache, net) ==
    [exc |-> kind, cache |-> cache, net |-> net, rec |-> NoRecord]

(* DMARCRecord(record_xml), statement by statement: the Record built       *)
(* (rec) or the exception raised (exc), the resolver cache afterwards and  *)
(* whether the network was used.  outcome is what gethostbyaddr does if    *)
(* _lookup_ip calls it.                                                    *)
DMARCRecord(rx, cache, outcome) ==
    IF rx.source_ip = Absent THEN Failed("AttributeError", cache, FALSE)   \* 22
    ELSE
    LET lk == _lookup_ip(cache, rx.source_ip, outcome) IN                   \* 23
    IF lk.exc /= NoExc THEN Failed(lk.exc, lk.cache, lk.net)
    ELSE IF ~rx.has_policy_evaluated \/ rx.disposition = Absent            \* 25-26
    THEN Failed("AttributeError", lk.cache, lk.net)
    ELSE IF rx.spf /= Absent /\ rx.spf \notin {"pass", "fail"}             \* 31
    THEN Failed("AssertionError", lk.cache, lk.net)
    ELSE IF rx.dkim /= Absent /\ rx.dkim \notin {"pass", "fail"}           \* 34
    THEN Failed("AssertionError", lk.cache, lk.net)
    ELSE IF ~rx.has_identifiers                                           \* 42
    THEN Failed("AttributeError", lk.cache, lk.net)
    ELSE IF rx.count = Absent                                             \* 44
    THEN Failed("AttributeError", lk.cache, lk.net)
    ELSE IF rx.count \notin DOMAIN IntOf
    THEN Failed("ValueError", lk.cache, lk.net)
    ELSE IF ~rx.has_auth_results                                          \* 47
    THEN Failed("AttributeError", lk.cache, lk.net)
    ELSE
    LET spf  == SpfLoop(rx.spf_auth, 1, <<>>)                             \* 47-52
        dkim == DkimLoop(rx.dkim_auth, 1, <<>>)                           \* 55-63
    IN
    IF spf.exc /= NoExc THEN Failed(spf.exc, lk.cache, lk.net)
    ELSE IF dkim.exc /= NoExc THEN Failed(dkim.exc, lk.cache, lk.net)
    ELSE
    [exc |-> NoExc, cache |-> lk.cache, net |-> lk.net,
     rec |-> [ip |-> rx.source_ip,
              host |-> lk.ret,
              disposition |-> rx.disposition,
              reason |-> IF rx.has_reason /\ rx.reason_type /= Absent     \* 39-40
                         THEN rx.reason_type ELSE PyNone,
              spf_pass |-> SpfPass(rx.spf),
              dkim_pass |-> DkimPass(rx.dkim),
              header_from |-> OrNone(rx.header_from),
              envelope_from |-> OrNone(rx.envelope_from),
              count |-> IntOf[rx.count],
              spf_results |-> spf.list,
              dkim_signatures |-> dkim.list]]

----------------------------------------------------------------------------
(* The report decoder: DMARCReport.__init__ and _process_xml *)

(* An XML document: whether it has a report_metadata element, the texts of *)
(* report_id, org_name, date_range/begin and date_range/end (or Absent),   *)
(* and its <record> elements in document order.                            *)
Doc(recs) ==
    [has_metadata |-> TRUE, report_id |-> "id-1", org_name |-> "receiver.example",
     begin |-> "1", end |-> "5", records |-> recs]

NoReport == [id |-> Absent]

(* datetime.datetime.utcfromtimestamp(seconds): the UTC instant. *)
UtcFromTimestamp(seconds) == [utc |-> seconds]

(* DMARCReport(filename, metadata_xml, policy_xml): lines 68-75. *)
DMARCReport(filename, doc) ==
    IF ~doc.has_metadata \/ doc.report_id = Absent \/ doc.org_name = Absent
       \/ doc.begin = Absent \/ doc.end = Absent
    THEN [exc |-> "AttributeError", report |-> NoReport]
    ELSE IF doc.begin \notin DOMAIN IntOf \/ doc.end \notin DOMAIN IntOf
    THEN [exc |-> "ValueError", report |-> NoReport]
    ELSE [exc |-> NoExc,
          report |-> [id |-> doc.report_id,
                      filename |-> filename,
                      receiver |-> doc.org_name,
                      start_date |-> UtcFromTimestamp(IntOf[doc.begin]),
                      end_date |-> UtcFromTimestamp(IntOf[doc.end]),
                      records |-> <<>>]]

(* A mutation of add_record: the record is put first. *)
add_record_first(rep, record) ==
    [rep EXCEPT !.records = <<record>> \o @]

(* DMARCReport.add_record: lines 77-78. *)
add_record(rep, record) ==
    [rep EXCEPT !.records = Append(@, record)]

----------------------------------------------------------------------------
(* The archive extractors: _process_zipfile, _process_gzfile, and their    *)
(* dispatch in parse_report                                                *)

(* What a file holds, whatever its name: container is "zip", "gzip" or     *)
(* "garbage"; entries are the members of a zip archive in namelist()       *)
(* order, each with its name and the document it holds; doc is what a gzip *)
(* stream decompresses to.                                                 *)
ZipContent(entries) == [container |-> "zip", entries |-> entries, doc |-> Doc(<<>>)]
GzipContent(doc)    == [container |-> "gzip", entries |-> <<>>, doc |-> doc]
Garbage             == [container |-> "garbage", entries |-> <<>>, doc |-> Doc(<<>>)]

(* What extraction hands to _process_xml: nothing (found = FALSE, the      *)
(* function returns None), an exception, or the document and the name the  *)
(* report is filed under.                                                  *)
Nothing == [exc |-> NoExc, found |-> FALSE, doc |-> Doc(<<>>), archive_name |-> <<>>]
Raises(kind) == [exc |-> kind, found |-> FALSE, doc |-> Doc(<<>>), archive_name |-> <<>>]
Found(doc, archive_name) ==
    [exc |-> NoExc, found |-> TRUE, doc |-> doc, archive_name |-> archive_name]

(* Lines 111-115: the first member whose name ends in ".xml". *)
RECURSIVE FirstXml(_, _, _)
FirstXml(entries, k, archive_name) ==
    IF k > Len(entries) THEN Nothing
    ELSE IF EndsWith(entries[k].name, DotXml)
         THEN Found(entries[k].doc, archive_name)
         ELSE FirstXml(entries, k + 1, archive_name)

(* _process_zipfile(fname) up to its call of _process_xml: lines 108-115.  *)
(* zipfile.ZipFile raises BadZipFile on anything that is not a zip archive.*)
_process_zipfile(fname, content) ==
    LET archive_name == SplitLast(fname, Slash) IN
    IF content.container /= "zip" THEN Raises("BadZipFile")
    ELSE FirstXml(content.entries, 1, archive_name)

(* Line 121: the name of the single member of the gzip file. *)
GzSubfileName(archive_name) == Replace(archive_name, DotGz, <<>>)

(* _process_gzfile(fname) up to its call of _process_xml: lines 118-124.   *)
(* gzip.open does not read; the first read, made by the XML parser, raises *)
(* OSError on anything that is not a gzip stream.                          *)
_process_gzfile(fname, content) ==
    LET archive_name == SplitLast(fname, Slash)
        subfile_name == GzSubfileName(archive_name)
    IN  IF EndsWith(subfile_name, DotXml)
        THEN IF content.container /= "gzip" THEN Raises("OSError")
             ELSE Found(content.doc, archive_name)
        ELSE Nothing

(* parse_report's dispatch on the extension: lines 128-132. *)
Extract(root, fname, content) ==
    IF EndsWith(fname, DotZip) THEN _process_zipfile(JoinPath(root, fname), content)
    ELSE IF EndsWith(fname, DotGz) THEN _process_gzfile(JoinPath(root, fname), content)
    ELSE Nothing

(* parse_report up to the first <record> of _process_xml (lines 98-101):   *)
(* the report built by DMARCReport, still without records.                 *)
BeginReport(root, fname, content) ==
    LET x == Extract(root, fname, content) IN
    IF x.exc /= NoExc THEN [exc |-> x.exc, found |-> FALSE, report |-> NoReport]
    ELSE IF ~x.found THEN [exc |-> NoExc, found |-> FALSE, report |-> NoReport]
    ELSE LET r == DMARCReport(x.archive_name, x.doc)
         IN  [exc |-> r.exc, found |-> r.exc = NoExc, report |-> r.report]

----------------------------------------------------------------------------
(* The report store (dmarc_storage.DMARCStorage): the reports saved, in    *)
(* the order of the save_new_report calls.                                 *)

report_already_exists(st, fname) ==
    \E k \in 1..Len(st) : st[k].filename = fname

save_new_report(st, rep) == Append(st, rep)

----------------------------------------------------------------------------
(* The parts of the state a specification does not use stay as they are    *)
(* here.                                                                   *)

NoCall ==
    [called |-> FALSE, ip |-> "", before |-> <<>>, outcome |-> "", net |-> FALSE,
     exc |-> NoExc, ret |-> PyNone]

LookupIdle ==
    /\ lkCalls = 0
    /\ netOps = [ip \in IPs |-> 0]
    /\ netOK = [ip \in IPs |-> 0]
    /\ lkLast = NoCall

NotBuilt == [done |-> FALSE, exc |-> NoExc, net |-> FALSE, rec |-> NoRecord]

RecordIdle ==
    /\ record_xml = GoodRecordXml(Ip1)
    /\ recOut = NotBuilt

GzIdle ==
    /\ gzName = <<>>
    /\ gzOut = "pending"

DriverIdle ==
    /\ dir = <<>>
    /\ store = <<>>
    /\ run = 0
    /\ pc = "idle"
    /\ idx = 1
    /\ n = 0
    /\ n_new = 0
    /\ report = NoReport
    /\ recIdx = 1
    /\ raised = NoExc
    /\ visitLog = <<>>
    /\ saveCalls = <<>>

----------------------------------------------------------------------------
(* SpecLookup: any sequence of _lookup_ip calls in one process *)

InitLookup ==
    /\ rdns \in Caches
    /\ LookupIdle /\ RecordIdle /\ GzIdle /\ DriverIdle

(* One call _lookup_ip(ip): lines 81-93. *)
Resolve ==
    /\ lkCalls < MaxCalls
    /\ \E ip \in IPs : \E outcome \in OutcomesFor(ip) :
          LET r == _lookup_ip(rdns, ip, outcome) IN
          /\ rdns' = r.cache
          /\ lkCalls' = lkCalls + 1
          /\ netOps' = [netOps EXCEPT ![ip] = IF r.net THEN @ + 1 ELSE @]
          /\ netOK' = [netOK EXCEPT
                          ![ip] = IF r.net /\ outcome \in Hosts THEN @ + 1 ELSE @]
          /\ lkLast' = [called |-> TRUE, ip |-> ip, before |-> rdns,
                        outcome |-> IF r.net THEN outcome ELSE "",
                        net |-> r.net, exc |-> r.exc, ret |-> r.ret]
    /\ UNCHANGED <<recordVars, gzVars, driverVars>>

NextLookup == Resolve

SpecLookup == InitLookup /\ [][NextLookup]_vars

C3_LookupNeverRaises ==
    lkLast.called => (lkLast.exc = NoExc /\ (lkLast.outcome \notin Hosts /\ lkLast.net
                                              => lkLast.ret = PyNone))

----------------------------------------------------------------------------
(* SpecRecord: one DMARCRecord construction on an enumerated <record> *)

PolicyTexts  == {Absent, "pass", "fail", "softfail"}
Dispositions == {Absent, "none", "quarantine", "reject", "discard"}

(* The <dkim> entries of auth_results that are enumerated. *)
DkimEntries ==
    {[result |-> r, domain |-> d, selector |-> Absent, human_result |-> Absent] :
        r \in {"none", "neutral", "pass", "fail"},
        d \in {"not.evaluated", "example.com"}}
    \cup {[result |-> "pass", domain |-> "example.net",
           selector |-> "s1", human_result |-> "ok"],
          [result |-> "fail", domain |-> Absent,
           selector |-> Absent, human_result |-> Absent]}

DkimLists == UNION {[1..k -> DkimEntries] : k \in 0..MaxDkim}

(* Records that differ in the policy_evaluated part. *)
PolicyInputs ==
    {[GoodRecordXml(ip) EXCEPT !.has_policy_evaluated = hp, !.disposition = d,
                               !.spf = sp, !.dkim = dk, !.count = c,
                               !.has_reason = hr, !.reason_type = "forwarded"] :
        ip \in {Absent, Ip1}, hp \in BOOLEAN, d \in Dispositions,
        sp \in PolicyTexts, dk \in PolicyTexts, c \in {Absent, "1", "many"},
        hr \in BOOLEAN}

(* Records that differ in the auth_results part. *)
AuthInputs ==
    {[GoodRecordXml(NameText) EXCEPT !.dkim = dk, !.has_auth_results = ha,
                                       !.dkim_auth = sigs] :
        dk \in {Absent, "fail"}, ha \in BOOLEAN, sigs \in DkimLists}

InitRecord ==
    /\ rdns \in Caches
    /\ record_xml \in PolicyInputs \cup AuthInputs
    /\ recOut = NotBuilt
    /\ LookupIdle /\ GzIdle /\ DriverIdle

(* record = DMARCRecord(record_xml): lines 20-63. *)
BuildRecord ==
    /\ ~recOut.done
    /\ \E outcome \in OutcomesFor(record_xml.source_ip) :
          LET r == DMARCRecord(record_xml, rdns, outcome) IN
          /\ rdns' = r.cache
          /\ recOut' = [done |-> TRUE, exc |-> r.exc, net |-> r.net, rec |-> r.rec]
    /\ UNCHANGED <<record_xml, lookupVars, gzVars, driverVars>>

NextRecord == BuildRecord

SpecRecord == InitRecord /\ [][NextRecord]_vars

Built == recOut.done /\ recOut.exc = NoExc

(* C5 as claimed: a <dkim> entry is left out of the Record's DKIM          *)
(* signature list exactly when its result is none or neutral AND its       *)
(* domain is not.evaluated; every other entry is kept, in order.           *)
C5_DropsOnlyWhenBoth ==
    Built =>
        LET Kept(e) == ~(e.result \in {"none", "neutral"}
                          /\ e.domain = "not.evaluated")
            kept == SelectSeq(record_xml.dkim_auth, Kept)
        IN  recOut.rec.dkim_signatures = [k \in 1..Len(kept) |-> DkimDict(kept[k])]

(* C5 amended: a <dkim> entry is left out of the Record's DKIM signature   *)
(* list exactly when its result is none or neutral OR its domain is        *)
(* not.evaluated; every other entry is kept, in order of appearance.       *)
C5_DropsWhenEither ==
    Built =>
        LET Kept(e) == ~(e.result \in {"none", "neutral"}
                          \/ e.domain = "not.evaluated")
            kept == SelectSeq(record_xml.dkim_auth, Kept)
        IN  recOut.rec.dkim_signatures = [k \in 1..Len(kept) |-> DkimDict(kept[k])]

(* C5 witness: a Record was built from auth_results holding an entry with  *)
(* result none and a real domain, which was dropped, next to an entry that *)
(* was kept.                                                               *)
C5_Witness ==
    /\ Built
    /\ \E k \in 1..Len(record_xml.dkim_auth) :
          /\ record_xml.dkim_auth[k].result = "none"
          /\ record_xml.dkim_auth[k].domain = "example.com"
    /\ Len(recOut.rec.dkim_signatures) = 1
    /\ Len(record_xml.dkim_auth) = 2

(* C7: every Record built has a defined DKIM-pass flag, False when         *)
(* policy_evaluated.dkim is missing and (text = "pass") otherwise, while   *)
(* its SPF-pass flag is None exactly when policy_evaluated.spf is missing. *)
C7_DkimPassDefined ==
    Built =>
        /\ recOut.rec.dkim_pass \in {PyTrue, PyFalse}
        /\ record_xml.dkim = Absent => recOut.rec.dkim_pass = PyFalse
        /\ record_xml.dkim /= Absent =>
              (recOut.rec.dkim_pass = PyTrue <=> record_xml.dkim = "pass")
        /\ recOut.rec.spf_pass = PyNone <=> record_xml.spf = Absent
        /\ record_xml.spf /= Absent =>
              (recOut.rec.spf_pass = PyTrue <=> record_xml.spf = "pass")

(* C7 witness: a Record was built from a policy_evaluated with neither     *)
(* <dkim> nor <spf>.                                                       *)
C7_Witness ==
    /\ Built
    /\ record_xml.dkim = Absent /\ record_xml.spf = Absent
    /\ recOut.rec.dkim_pass = PyFalse
    /\ recOut.rec.spf_pass = PyNone

(* C9 as claimed: the disposition of every Record built is none,           *)
(* quarantine or reject.                                                   *)
C9_KnownDisposition ==
    Built => recOut.rec.disposition \in {"none", "quarantine", "reject"}

----------------------------------------------------------------------------
(* SpecGz: parse_report's extraction of one well-formed gzip file whose    *)
(* name ends in ".gz"                                                      *)

Pieces == {<<"m">>, <<"m", "l">>, <<".", "x">>, DotXml, DotGz, DotTxt}

RECURSIVE Concat(_)
Concat(parts) == IF parts = <<>> THEN <<>> ELSE Head(parts) \o Concat(Tail(parts))

GzNames == {Concat(parts) \o DotGz :
               parts \in UNION {[1..k -> Pieces] : k \in 1..MaxParts}}

InitGz ==
    /\ rdns \in Caches
    /\ gzName \in GzNames
    /\ gzOut = "pending"
    /\ LookupIdle /\ RecordIdle /\ DriverIdle

Root == <<"r">>

(* Extraction of the file root/gzName: lines 131-132 and 118-124. *)
ExtractGz ==
    /\ gzOut = "pending"
    /\ gzOut' = IF Extract(Root, gzName, GzipContent(Doc(<<>>))).found
                THEN "decoded" ELSE "none"
    /\ UNCHANGED <<rdns, gzName, lookupVars, recordVars, driverVars>>

NextGz == ExtractGz

SpecGz == InitGz /\ [][NextGz]_vars

(* C6 as claimed: extraction of a .gz file returns none exactly when its   *)
(* name with only the trailing ".gz" removed does not end in ".xml".       *)
C6_OnlyTrailingGzStripped ==
    gzOut /= "pending" =>
        (gzOut = "none"
            <=> ~EndsWith(SubSeq(gzName, 1, Len(gzName) - Len(DotGz)), DotXml))

----------------------------------------------------------------------------
(* Spec: runs of parse_reports_in_directory over one unchanged directory   *)

SubRoot == <<"r", "/", "s">>

DocTwo      == Doc(<<GoodRecordXml(Ip1), [GoodRecordXml(NameText) EXCEPT !.count = "1"]>>)
DocOne      == Doc(<<GoodRecordXml(NameText)>>)
DocBadSpf   == Doc(<<GoodRecordXml(Ip1), [GoodRecordXml(NameText) EXCEPT !.spf = "softfail"]>>)
DocNoOrg    == [Doc(<<GoodRecordXml(Ip1)>>) EXCEPT !.org_name = Absent]

File(root, fname, content) == [root |-> root, fname |-> fname, content |-> content]

(* The files a directory is made of: archives that decode, archives that   *)
(* fail (corrupt zip, missing required field, bad spf value), files that   *)
(* yield nothing, and two files of the same name in different folders.     *)
FilePool ==
    {File(Root, <<"a">> \o DotZip,
          ZipContent(<<[name |-> <<"n">> \o DotTxt, doc |-> DocOne],
                       [name |-> <<"a">> \o DotXml, doc |-> DocTwo]>>)),
     File(SubRoot, <<"a">> \o DotZip,
          ZipContent(<<[name |-> <<"a">> \o DotXml, doc |-> DocOne]>>)),
     File(Root, <<"b">> \o DotXml \o DotGz, GzipContent(DocBadSpf)),
     File(Root, <<"c">> \o DotZip, Garbage),
     File(Root, <<"d">> \o DotTxt, Garbage),
     File(Root, <<"e">> \o DotTxt \o DotGz, GzipContent(DocOne)),
     File(Root, <<"f">> \o DotXml \o DotGz, GzipContent(DocOne)),
     File(Root, <<"g">> \o DotZip,
          ZipContent(<<[name |-> <<"n">> \o DotTxt, doc |-> DocOne]>>)),
     File(Root, <<"h">> \o DotXml \o DotGz, GzipContent(DocNoOrg))}

(* The directories: up to MaxFiles different files, in any walk order. *)
Directories ==
    {d \in UNION {[1..k -> FilePool] : k \in 1..MaxFiles} :
        \A i, j \in 1..Len(d) : i /= j => d[i] /= d[j]}

Init ==
    /\ rdns \in Caches
    /\ dir \in Directories
    /\ store = <<>>
    /\ run = 0
    /\ pc = "idle"
    /\ idx = 1
    /\ n = 0
    /\ n_new = 0
    /\ report = NoReport
    /\ recIdx = 1
    /\ raised = NoExc
    /\ visitLog = <<>>
    /\ saveCalls = <<>>
    /\ LookupIdle /\ RecordIdle /\ GzIdle

(* The document _process_xml is decoding: that of the file at idx. *)
CurrentDoc == Extract(dir[idx].root, dir[idx].fname, dir[idx].content).doc

(* A mutation of line 147: a file the store already has is not counted. *)
CountVisitUnlessKnown(count, exists) == IF exists THEN count ELSE count + 1

(* Line 147: n += 1, before the store is asked. *)
CountVisit(count, exists) == count + 1

(* A call of parse_reports_in_directory: lines 142-144. *)
StartRun ==
    /\ pc \in {"idle", "done", "aborted"}
    /\ run < MaxRuns
    /\ run' = run + 1
    /\ pc' = "walk"
    /\ idx' = 1
    /\ n' = 0
    /\ n_new' = 0
    /\ report' = NoReport
    /\ recIdx' = 1
    /\ raised' = NoExc
    /\ visitLog' = <<>>
    /\ saveCalls' = <<>>
    /\ UNCHANGED <<rdns, dir, store, lookupVars, recordVars, gzVars>>

(* One iteration of the loop of lines 146-153 up to the first <record>:    *)
(* count the file, ask the store, extract, build the DMARCReport.          *)
VisitFile ==
    /\ pc = "walk"
    /\ idx <= Len(dir)
    /\ LET f == dir[idx]
           exists == report_already_exists(store, f.fname)
           b == BeginReport(f.root, f.fname, f.content)
       IN  /\ n' = CountVisit(n, exists)
           /\ IF exists
              THEN /\ pc' = "walk"
                   /\ idx' = idx + 1
                   /\ visitLog' = Append(visitLog, "exists")
                   /\ UNCHANGED <<report, raised>>
              ELSE IF b.exc /= NoExc
              THEN /\ pc' = "aborted"
                   /\ raised' = b.exc
                   /\ visitLog' = Append(visitLog, "failed")
                   /\ UNCHANGED <<idx, report>>
              ELSE IF ~b.found
              THEN /\ pc' = "walk"
                   /\ idx' = idx + 1
                   /\ visitLog' = Append(visitLog, "nothing")
                   /\ UNCHANGED <<report, raised>>
              ELSE /\ pc' = "decode"
                   /\ report' = b.report
                   /\ UNCHANGED <<idx, raised, visitLog>>
    /\ recIdx' = 1
    /\ UNCHANGED <<rdns, dir, store, run, n_new, saveCalls,
                   lookupVars, recordVars, gzVars>>

(* One iteration of the loop of lines 102-104. *)
DecodeRecord ==
    /\ pc = "decode"
    /\ recIdx <= Len(CurrentDoc.records)
    /\ \E outcome \in OutcomesFor(CurrentDoc.records[recIdx].source_ip) :
          LET r == DMARCRecord(CurrentDoc.records[recIdx], rdns, outcome) IN
          /\ rdns' = r.cache
          /\ IF r.exc /= NoExc
             THEN /\ pc' = "aborted"
                  /\ raised' = r.exc
                  /\ report' = NoReport
                  /\ visitLog' = Append(visitLog, "failed")
                  /\ UNCHANGED recIdx
             ELSE /\ report' = add_record(report, r.rec)
                  /\ recIdx' = recIdx + 1
                  /\ UNCHANGED <<pc, raised, visitLog>>
    /\ UNCHANGED <<dir, store, run, idx, n, n_new, saveCalls,
                   lookupVars, recordVars, gzVars>>

(* _process_xml returns the report; parse_report saves it and returns True *)
(* (lines 105, 134-136); the driver counts it (line 153).                  *)
SaveReport ==
    /\ pc = "decode"
    /\ recIdx > Len(CurrentDoc.records)
    /\ store' = save_new_report(store, report)
    /\ saveCalls' = Append(saveCalls, idx)
    /\ n_new' = n_new + 1
    /\ visitLog' = Append(visitLog, "saved")
    /\ idx' = idx + 1
    /\ pc' = "walk"
    /\ report' = NoReport
    /\ UNCHANGED <<rdns, dir, run, n, recIdx, raised, lookupVars, recordVars, gzVars>>

(* The walk is over: the summary of line 154. *)
Summary ==
    /\ pc = "walk"
    /\ idx > Len(dir)
    /\ pc' = "done"
    /\ UNCHANGED <<rdns, dir, store, run, idx, n, n_new, report, recIdx, raised,
                   visitLog, saveCalls, lookupVars, recordVars, gzVars>>

Next == StartRun \/ VisitFile \/ DecodeRecord \/ SaveReport \/ Summary

Spec == Init /\ [][Next]_vars

----------------------------------------------------------------------------
(* Claims about the driver *)

(* The file of dir the k-th entry of visitLog is about, and the document   *)
(* extraction finds in a file.                                             *)
DocOf(f) == Extract(f.root, f.fname, f.content).doc

(* The report the k-th save_new_report call of this run put in the store:  *)
(* the store only grows, at its end, by these calls.                       *)
SavedBy(k) == store[Len(store) - Len(saveCalls) + k]

(* C2 as claimed: a file that fails during extraction or decoding does not *)
(* abort the run; the walk goes on to the remaining files and the summary. *)
C2_BadFileDoesNotAbort ==
    \A k \in 1..Len(visitLog) :
        visitLog[k] = "failed" => (raised = NoExc /\ pc \in {"walk", "decode", "done"})

(* C4 as claimed: a second run over the same directory, with a store that  *)
(* keeps what the first run saved, saves no report.                        *)
C4_SecondRunSavesNothing ==
    run >= 2 => (n_new = 0 /\ saveCalls = <<>>)

(* C8: in a run that completes, n is the number of files under the         *)
(* directory (skipped, unrecognized and empty ones included) and n_new the *)
(* number of save_new_report calls; and save_new_report is never called    *)
(* for a file name the store reported as existing, so no two saved reports *)
(* share a file name and every file logged as existing was not saved.      *)
C8_CountsOnCompletion ==
    /\ pc = "done" =>
          /\ n = Len(dir)
          /\ Len(visitLog) = Len(dir)
          /\ n_new = Len(saveCalls)
          /\ n_new = Cardinality({k \in 1..Len(visitLog) : visitLog[k] = "saved"})
    /\ \A k \in 1..Len(saveCalls) :
          /\ saveCalls[k] \in 1..Len(visitLog) => visitLog[saveCalls[k]] = "saved"
          /\ SavedBy(k).filename = dir[saveCalls[k]].fname
    /\ \A a, b \in 1..Len(store) :
          a /= b => store[a].filename /= store[b].filename

(* C8 witness: a completed run that saved a report, skipped a file the     *)
(* store already had and passed over a file that yielded nothing.          *)
C8_Witness ==
    /\ pc = "done"
    /\ n = Len(dir) /\ n_new >= 1
    /\ \E k \in 1..Len(visitLog) : visitLog[k] = "exists"
    /\ \E k \in 1..Len(visitLog) : visitLog[k] = "nothing"

(* A <record> that DMARCRecord accepts, stated on the element itself. *)
WellFormed(rx) ==
    /\ rx.source_ip /= Absent
    /\ rx.has_policy_evaluated /\ rx.disposition /= Absent
    /\ rx.spf \in {Absent, "pass", "fail"}
    /\ rx.dkim \in {Absent, "pass", "fail"}
    /\ rx.has_identifiers /\ rx.has_auth_results
    /\ rx.count \in {"1", "5"}

(* C10: a report reaches the store only fully decoded.  Every report saved *)
(* holds exactly one Record per <record> of its document, in document      *)
(* order, and every <record> of that document is well formed; a file whose *)
(* decoding failed or is still under way has no report in the store.       *)
C10_SavedOnlyFullyDecoded ==
    /\ \A k \in 1..Len(saveCalls) :
          LET doc == DocOf(dir[saveCalls[k]])
              rep == SavedBy(k)
          IN  /\ Len(rep.records) = Len(doc.records)
              /\ \A j \in 1..Len(doc.records) :
                    /\ WellFormed(doc.records[j])
                    /\ rep.records[j].ip = doc.records[j].source_ip
                    /\ rep.records[j].count = IntOf[doc.records[j].count]
    /\ pc \in {"decode", "aborted"} =>
          /\ \A k \in 1..Len(saveCalls) : saveCalls[k] /= idx
          /\ ~report_already_exists(store, dir[idx].fname)

(* C10 witness: a report of two records was saved from one file, and the   *)
(* next file failed on its second <record> after its first was decoded;    *)
(* the store holds nothing of the failed file.                             *)
C10_Witness ==
    /\ pc = "aborted" /\ raised = "AssertionError"
    /\ idx = 2 /\ recIdx = 2
    /\ Len(store) = 1 /\ Len(store[1].records) = 2
    /\ store[1].records[1].ip = Ip1 /\ store[1].records[2].ip = NameText

====
